---- MODULE Spec2Model ----
(***************************************************************************)
(* A model of the conversion engine of src/lib/converter/converter.ts:     *)
(* the converter registry (addComponent, removeComponent,                  *)
(* removeAllComponents), the type resolution pipeline (convertType), the   *)
(* cycle-safe node traversal (convertNode), the diagnostic pipeline        *)
(* (compile), the resolution pass (resolve) and the lifecycle (convert).   *)
(*                                                                         *)
(* An optional JavaScript value is a sequence of length at most one:       *)
(* <<>> is undefined/null, <<v>> is the value v.  A JavaScript object used *)
(* as a map is a function whose DOMAIN is the set of its own keys.         *)
(***************************************************************************)
EXTENDS Integers, Sequences, FiniteSets, TLC

(***************************************************************************)
(* Bounds of the model.                                                    *)
(***************************************************************************)
\* the names under which components may be registered
NumNames == 3
\* the number of registrations between two removeAllComponents calls
MaxRegs == 3

Names == 1..NumNames

(***************************************************************************)
(* The component instances the registry is exercised with.  ClassOf is the *)
(* result of the instanceof tests of addComponent/removeComponent; the     *)
(* other operators are the members the code reads from a component.        *)
(***************************************************************************)
Converters == 1..7

Kinds == 1..3

\* component instanceof ConverterNodeComponent / ConverterTypeComponent
ClassOf(c) ==
    CASE c \in {1, 2, 3, 4} -> "type"
      [] c \in {5, 6}       -> "node"
      [] OTHER              -> "other"

\* 'supportsNode' in converter && 'convertNode' in converter
HasNodePair(c) == c \in {1, 2, 3, 5}

\* 'supportsType' in converter && 'convertType' in converter
HasTypePair(c) == c \in {1, 2, 4, 5}

\* converter.priority: undefined, or a number
Priority(c) ==
    CASE c = 1 -> <<>>
      [] c = 2 -> <<0>>
      [] c = 3 -> <<1>>
      [] c = 4 -> <<1>>
      [] c = 5 -> <<2>>
      [] OTHER -> <<>>

\* converter.supports: the syntax kinds a node converter declares
Supports(c) ==
    CASE c = 5 -> <<1, 2>>
      [] c = 6 -> <<2, 3>>
      [] OTHER -> <<>>

(***************************************************************************)
(* Maps and sequences.                                                     *)
(***************************************************************************)
EmptyMap == [x \in {} |-> 0]

Put(m, k, v) == [x \in (DOMAIN m) \cup {k} |-> IF x = k THEN v ELSE m[x]]

Delete(m, k) == [x \in (DOMAIN m) \ {k} |-> m[x]]

Range(s) == {s[i] : i \in DOMAIN s}

\* Array.prototype.splice(index, 1)
Splice(s, index) == [i \in 1..(Len(s) - 1) |-> IF i < index THEN s[i] ELSE s[i + 1]]

(***************************************************************************)
(* The registry.  An entry of a type converter list is the converter c     *)
(* together with `at', its position in the registration log: the code      *)
(* stores only c, `at' records which registration put the entry there.     *)
(***************************************************************************)
VARIABLES
    children,            \* ChildableComponent._componentChildren: name -> component
    nodeConverters,      \* this.nodeConverters: syntax kind -> component
    typeNodeConverters,  \* this.typeNodeConverters
    typeTypeConverters,  \* this.typeTypeConverters
    regLog,              \* the components registered since initialize/removeAllComponents
    lastOp,              \* the registry operation that ran last, and its component
    call,                \* the convertType call in progress: its arguments, place and calls made
    program,             \* the program under conversion: which comment each node carries
    fileNames,           \* the file names convert handed to createProgram and the Context
    pc,                  \* where convert is: idle, compile, resolveBegin, ..., returned, threw
    fileIdx,             \* compile: the next source file of getSourceFiles() to convert
    phase,               \* compile: the next diagnostic phase to query
    frames,              \* the convertNode calls whose handler is running, outermost first
    visitStack,          \* context.visitStack
    last,                \* the convertNode call that returned last
    events,              \* what convert has fired, visited at top level and queried, in order
    reflections,         \* context.project.reflections: id -> reflection (own properties)
    keyIdx,              \* resolve: the next key of the for-in loop
    errors,              \* what compile returned, once it has
    again                \* a further call of resolve on the same context: place, events fired

registry == <<children, nodeConverters, typeNodeConverters, typeTypeConverters, regLog, lastOp>>

conversion == <<program, fileNames, pc, fileIdx, phase, frames, visitStack, last, events, reflections,
                keyIdx, errors, again>>

vars == <<registry, call, conversion>>

\* (x.priority || 0)
PriorityOrZero(c) == IF Priority(c) = <<>> \/ Priority(c) = <<0>> THEN 0 ELSE Priority(c)[1]

\* the comparator (a, b) => (b.priority || 0) - (a.priority || 0)
Compare(a, b) == PriorityOrZero(b.c) - PriorityOrZero(a.c)

\* the place of x in a sorted list: behind every element the comparator does not put after x
InsertPos(sorted, x) ==
    LET after == {i \in 1..Len(sorted) : Compare(sorted[i], x) > 0}
    IN  IF after = {} THEN Len(sorted) + 1
        ELSE CHOOSE i \in after : \A j \in after : i <= j

Insert(sorted, x) ==
    LET p == InsertPos(sorted, x)
    IN  [i \in 1..(Len(sorted) + 1) |->
            IF i < p THEN sorted[i] ELSE IF i = p THEN x ELSE sorted[i - 1]]

RECURSIVE SortFrom(_, _)
SortFrom(sorted, rest) ==
    IF rest = <<>> THEN sorted ELSE SortFrom(Insert(sorted, Head(rest)), Tail(rest))

\* a sort that leaves the list as it is
SortSkipped(list) == list

\* a sort that puts an element before the elements it ties with
RECURSIVE SortTiesReversed(_)
SortTiesReversed(list) ==
    IF list = <<>> THEN <<>>
    ELSE LET x    == list[Len(list)]
             done == SortTiesReversed(SubSeq(list, 1, Len(list) - 1))
             back == {i \in 1..Len(done) : Compare(done[i], x) >= 0}
             p    == IF back = {} THEN Len(done) + 1
                     ELSE CHOOSE i \in back : \A j \in back : i <= j
         IN  [i \in 1..(Len(done) + 1) |->
                 IF i < p THEN done[i] ELSE IF i = p THEN x ELSE done[i - 1]]

\* Array.prototype.sort with the comparator above (a stable sort, ECMAScript 2019)
Sort(list) == SortFrom(<<>>, list)

\* Array.prototype.indexOf on a converter list (0: not found)
IndexOf(list, c) ==
    LET at == {i \in 1..Len(list) : list[i].c = c}
    IN  IF at = {} THEN 0 ELSE CHOOSE i \in at : \A j \in at : i <= j

\* a registration that keeps the handler a kind already has
RECURSIVE AddNodeConverterKeepFirst(_, _, _)
AddNodeConverterKeepFirst(map, c, supports) ==
    IF supports = <<>> THEN map
    ELSE AddNodeConverterKeepFirst(
            IF Head(supports) \in DOMAIN map THEN map ELSE Put(map, Head(supports), c),
            c, Tail(supports))

RECURSIVE AddNodeConverter(_, _, _)
AddNodeConverter(map, c, supports) ==
    IF supports = <<>> THEN map
    ELSE AddNodeConverter(Put(map, Head(supports), c), c, Tail(supports))

\* the node half of addTypeConverter
AddTypeNodeConverter(list, e) ==
    IF HasNodePair(e.c) THEN Sort(Append(list, e)) ELSE list

\* the type half of addTypeConverter
AddTypeTypeConverter(list, e) ==
    IF HasTypePair(e.c) THEN Sort(Append(list, e)) ELSE list

\* a removal that goes by the kinds the converter declares
RemoveNodeConverterDeclared(map, c) ==
    [k \in {x \in DOMAIN map : x \notin Range(Supports(c))} |-> map[k]]

RemoveNodeConverter(map, c) ==
    [k \in {x \in DOMAIN map : map[x] # c} |-> map[k]]

\* indexOf, then splice when the index is not -1 (either list of removeTypeConverter)
RemoveTypeConverter(list, c) ==
    IF IndexOf(list, c) # 0 THEN Splice(list, IndexOf(list, c)) ELSE list

(***************************************************************************)
(* convertType.  The nodes and types it is called with, and the checker    *)
(* oracle getTypeAtLocation.  What a converter's supportsNode/supportsType *)
(* answers is the converter's own business: any answer may come back.      *)
(***************************************************************************)
TypeNodes == 1..2

Types == 1..2

\* context.getTypeAtLocation(node)
TypeAtLocation(node) == (node % 2) + 1

\* what converter c's convertNode / convertType hands back
ConvertNodeResult(c, node, type) == [by |-> c, m |-> "convertNode", node |-> node, type |-> type]

ConvertTypeResult(c, type) == [by |-> c, m |-> "convertType", node |-> <<>>, type |-> type]

Called(m, c, r) == [m |-> m, c |-> c, r |-> r]

Idle == [pc |-> "idle", node |-> <<>>, type |-> <<>>, idx |-> 0, log |-> <<>>, result |-> <<>>]

\* lines 378-380: with a node, the type defaults to the checker's type at the node
ConvertTypeEnter(node, type) ==
    [pc     |-> IF node # <<>> THEN "nodes" ELSE "types",
     node   |-> node,
     type   |-> IF node # <<>> /\ type = <<>> THEN <<TypeAtLocation(node[1])>> ELSE type,
     idx    |-> 1,
     log    |-> <<>>,
     result |-> <<>>]

\* a node loop that goes on to the next converter after a match
NodeLoopNoReturn(cl, list, supported) ==
    IF cl.idx > Len(list)
    THEN [cl EXCEPT !.pc = "types", !.idx = 1]
    ELSE LET c == list[cl.idx].c
         IN  IF supported
             THEN [cl EXCEPT !.idx = cl.idx + 1,
                             !.log = cl.log \o <<Called("supportsNode", c, TRUE),
                                                 Called("convertNode", c, TRUE)>>,
                             !.result = <<ConvertNodeResult(c, cl.node, cl.type)>>]
             ELSE [cl EXCEPT !.idx = cl.idx + 1,
                             !.log = Append(cl.log, Called("supportsNode", c, FALSE))]

\* lines 381-385: one turn of the loop over typeNodeConverters
NodeLoop(cl, list, supported) ==
    IF cl.idx > Len(list)
    THEN [cl EXCEPT !.pc = "types", !.idx = 1]
    ELSE LET c == list[cl.idx].c
         IN  IF supported
             THEN [cl EXCEPT !.pc = "done",
                             !.log = cl.log \o <<Called("supportsNode", c, TRUE),
                                                 Called("convertNode", c, TRUE)>>,
                             !.result = <<ConvertNodeResult(c, cl.node, cl.type)>>]
             ELSE [cl EXCEPT !.idx = cl.idx + 1,
                             !.log = Append(cl.log, Called("supportsNode", c, FALSE))]

\* a type loop that takes the last converter of the list first
TypeLoopFromEnd(cl, list, supported) ==
    IF cl.type = <<>> \/ cl.idx > Len(list)
    THEN [cl EXCEPT !.pc = "done"]
    ELSE LET c == list[Len(list) + 1 - cl.idx].c
         IN  IF supported
             THEN [cl EXCEPT !.pc = "done",
                             !.log = cl.log \o <<Called("supportsType", c, TRUE),
                                                 Called("convertType", c, TRUE)>>,
                             !.result = <<ConvertTypeResult(c, cl.type)>>]
             ELSE [cl EXCEPT !.idx = cl.idx + 1,
                             !.log = Append(cl.log, Called("supportsType", c, FALSE))]

\* lines 389-396: the test of type, then one turn of the loop over typeTypeConverters
TypeLoop(cl, list, supported) ==
    IF cl.type = <<>> \/ cl.idx > Len(list)
    THEN [cl EXCEPT !.pc = "done"]
    ELSE LET c == list[cl.idx].c
         IN  IF supported
             THEN [cl EXCEPT !.pc = "done",
                             !.log = cl.log \o <<Called("supportsType", c, TRUE),
                                                 Called("convertType", c, TRUE)>>,
                             !.result = <<ConvertTypeResult(c, cl.type)>>]
             ELSE [cl EXCEPT !.idx = cl.idx + 1,
                             !.log = Append(cl.log, Called("supportsType", c, FALSE))]

(***************************************************************************)
(* The program under conversion: its syntax nodes, what the registered     *)
(* node converters (the handlers) do with them, and the comments.          *)
(***************************************************************************)
\* the number of syntax nodes of the program
NumNodes == 4

Nodes == 1..NumNodes

\* program.getSourceFiles()
SourceFiles == <<1, 2>>

\* node.kind
Kind(node) == IF node % 4 = 0 THEN 3 ELSE (node % 2) + 1

\* the nodes the handler of `node' passes to convertNode, in order: the graph has a
\* node that refers to itself and nodes that refer to each other
Children(node) == <<(node % NumNodes) + 1, ((2 * node) % NumNodes) + 1>>

\* type.toString().toLowerCase() of the type references the handlers record
ToLowerCase(text) ==
    CASE text = "Component"           -> "component"
      [] text = "COMPONENT"           -> "component"
      [] text = "MyComponent"         -> "mycomponent"
      [] text = "IComponentBindings"  -> "icomponentbindings"
      [] text = "MyIComponentBindingsX" -> "myicomponentbindingsx"
      [] text = "IComponent"          -> "icomponent"
      [] text = "Base"                -> "base"
      [] text = "Other"               -> "other"
      [] OTHER                        -> text

\* lower.indexOf('icomponentbindings') >= 0
ContainsBindings(lower) == lower \in {"icomponentbindings", "myicomponentbindingsx"}

\* what the handler of `node' returns: nothing, or the reflection it created, which
\* is a DeclarationReflection or another reflection depending on the program
HandlerResult(node) ==
    IF node % 3 = 0 THEN <<>>
    ELSE <<[id              |-> node,
            declaration     |-> (node + program) % 2 = 0,
            kind            |-> "Class",
            extendedTypes   |-> CASE node % 4 = 2 -> <<<<"Base", "COMPONENT">>>>
                                  [] node % 4 = 0 -> <<<<"MyComponent">>>>
                                  [] OTHER        -> <<>>,
            implementedTypes |-> CASE node % 4 = 0 -> <<<<"IComponent">>>>
                                   [] node % 4 = 1 -> <<<<"Other", "MyIComponentBindingsX">>>>
                                   [] OTHER        -> <<>>,
            comment         |-> <<>>,
            notSupportedIn  |-> <<>>,
            componentOptions |-> FALSE]>>

\* the raw comments a node may carry, as pieces of text: none, plain text, a
\* not-supported-in tag with a list of features, the marker with nothing the tag
\* pattern accepts behind it, and the component-options marker
Comments ==
    << <<>>,
       <<<<"text">>>>,
       <<<<"text", "@notSupportedIn", " ", "IE", ", ", "Firefox", " ", "@componentOptions">>>>,
       <<<<"@notSupportedIn", " ", "-">>>>,
       <<<<"@notSupportedIn", "IE">>>> >>

\* getRawComment(node) in program p
RawComment(p, node) == Comments[((node + p) % Len(Comments)) + 1]

\* [\w]+
IsWord(piece) == piece \in {"text", "IE", "Firefox"}

\* \s*
RECURSIVE SkipSpace(_, _)
SkipSpace(text, i) == IF i <= Len(text) /\ text[i] = " " THEN SkipSpace(text, i + 1) ELSE i

\* (?:[\w]+, )*[\w]+ from a word at i: the place of its last word
RECURSIVE ListEnd(_, _)
ListEnd(text, i) ==
    IF i + 2 <= Len(text) /\ text[i + 1] = ", " /\ IsWord(text[i + 2])
    THEN ListEnd(text, i + 2) ELSE i

\* the tag pattern /@(?:notSupportedIn)\s*((?:[\w]+, )*[\w]+)/ matches at i
MatchesAt(text, i) ==
    /\ text[i] = "@notSupportedIn"
    /\ SkipSpace(text, i + 1) <= Len(text)
    /\ IsWord(text[SkipSpace(text, i + 1)])

\* where the pattern matches at or behind `from'
MatchStarts(text, from) == {i \in from..Len(text) : MatchesAt(text, i)}

\* the match at i: where it starts and ends, and its group
MatchAt(text, i) ==
    [from  |-> i,
     to    |-> ListEnd(text, SkipSpace(text, i + 1)),
     group |-> SubSeq(text, SkipSpace(text, i + 1), ListEnd(text, SkipSpace(text, i + 1)))]

\* the first match at or behind `from', or nothing
FirstMatch(text, from) ==
    IF MatchStarts(text, from) = {} THEN <<>>
    ELSE <<MatchAt(text, CHOOSE i \in MatchStarts(text, from) :
                            \A j \in MatchStarts(text, from) : i <= j)>>

\* comment.replace(tagRegex, ''): every match is cut out
RECURSIVE ReplaceTags(_, _)
ReplaceTags(text, from) ==
    LET m == FirstMatch(text, from)
    IN  IF m = <<>> THEN text
        ELSE ReplaceTags(SubSeq(text, 1, m[1].from - 1) \o SubSeq(text, m[1].to + 1, Len(text)),
                         m[1].from)

\* tagRegex.exec(comment): the match, or null
TagRegexExec(text) == FirstMatch(text, 1)

\* comment.indexOf(marker) != -1
HasMarker(text, marker) == \E i \in 1..Len(text) : text[i] = marker

\* tag[1].split(/,\s?/)
Split(group) == SelectSeq(group, LAMBDA piece : piece # ", ")

\* parseComment(text): the comment and the tags found in the text (tags undefined without any)
ParseComment(text) ==
    LET found == SelectSeq(text, LAMBDA piece : piece \in {"@notSupportedIn", "@componentOptions"})
    IN  [text |-> SelectSeq(text, LAMBDA piece : piece \notin {"@notSupportedIn", "@componentOptions"}),
         tags |-> IF found = <<>> THEN <<>>
                  ELSE <<[i \in 1..Len(found) |-> [tagName |-> found[i], paramName |-> "", text |-> <<>>]]>>]

\* this.application.notSupportedFeaturesConfig[tagValue]
NotSupportedFeaturesConfig(tagValue) ==
    IF tagValue = <<"IE">> THEN <<[link |-> "link", name |-> "name"]>> ELSE <<>>

\* new CommentTag('not supported in', '', tagValue), tagValue the group or the link to it
NotSupportedTag(group) ==
    [tagName   |-> "not supported in",
     paramName |-> "",
     text      |-> IF NotSupportedFeaturesConfig(group) # <<>>
                   THEN <<"<a href=", NotSupportedFeaturesConfig(group)[1].link, ">",
                          NotSupportedFeaturesConfig(group)[1].name, "</a>">>
                   ELSE group]

(***************************************************************************)
(* convertNode: the cycle guard, the stack, the dispatch and what is done  *)
(* to the handler's result.                                                *)
(***************************************************************************)
\* a guard that looks at the caller only
InVisitStackTopOnly(stack, node) == stack # <<>> /\ stack[Len(stack)] = node

\* line 305: context.visitStack.indexOf(node) !== -1
InVisitStack(stack, node) == \E i \in 1..Len(stack) : stack[i] = node

\* a push that does not reach the stack the handler sees
PushSkipped(stack, node) == stack

\* lines 310-311: a copy of the stack with the node pushed
Pushed(stack, node) == Append(stack, node)

\* a return that leaves the callee's stack in place
RestoreSkipped(oldVisitStack, current) == current

\* line 318: context.visitStack = oldVisitStack
Restored(oldVisitStack, current) == oldVisitStack

\* line 314: node.kind in this.nodeConverters
HasHandler(map, node) == Kind(node) \in DOMAIN map

\* line 321: the not-supported-in tag is processed
TagApplies(result, comment) ==
    result # <<>> /\ comment # <<>> /\ HasMarker(comment[1], "@notSupportedIn")

\* lines 322-338; tag[1] of a null match is a TypeError
WithTag(reflection, text) ==
    LET parsed == ParseComment(ReplaceTags(text, 1))
        tags   == IF parsed.tags = <<>> THEN <<>> ELSE parsed.tags[1]
        tag    == TagRegexExec(text)
    IN  IF tag = <<>>
        THEN [threw  |-> TRUE,
              result |-> <<[reflection EXCEPT !.comment = <<[parsed EXCEPT !.tags = <<tags>>]>>]>>]
        ELSE [threw  |-> FALSE,
              result |-> <<[reflection EXCEPT
                              !.comment = <<[parsed EXCEPT
                                  !.tags = <<Append(tags, NotSupportedTag(tag[1].group))>>]>>,
                              !.notSupportedIn = <<Split(tag[1].group)>>]>>]

\* lines 341-343
WithComponentOptions(reflection, comment) ==
    IF comment # <<>> /\ HasMarker(comment[1], "@componentOptions")
    THEN [reflection EXCEPT !.componentOptions = TRUE]
    ELSE reflection

\* an override that looks for the sentinel anywhere in an extended type's name
WithComponentKindBySubstring(reflection) ==
    IF /\ reflection.declaration
       /\ \/ /\ reflection.extendedTypes # <<>>
             /\ \E i \in 1..Len(reflection.extendedTypes[1]) :
                   ToLowerCase(reflection.extendedTypes[1][i]) \in {"component", "mycomponent"}
          \/ /\ reflection.implementedTypes # <<>>
             /\ \E i \in 1..Len(reflection.implementedTypes[1]) :
                   ContainsBindings(ToLowerCase(reflection.implementedTypes[1][i]))
    THEN [reflection EXCEPT !.kind = "CoveoComponent"]
    ELSE reflection

\* lines 345-362
WithComponentKind(reflection) ==
    IF /\ reflection.declaration
       /\ \/ /\ reflection.extendedTypes # <<>>
             /\ \E i \in 1..Len(reflection.extendedTypes[1]) :
                   ToLowerCase(reflection.extendedTypes[1][i]) = "component"
          \/ /\ reflection.implementedTypes # <<>>
             /\ \E i \in 1..Len(reflection.implementedTypes[1]) :
                   ContainsBindings(ToLowerCase(reflection.implementedTypes[1][i]))
    THEN [reflection EXCEPT !.kind = "CoveoComponent"]
    ELSE reflection

\* lines 319-365: what convertNode does with the handler's result before it returns it
PostProcess(result, comment) ==
    LET tagged == IF TagApplies(result, comment) THEN WithTag(result[1], comment[1])
                  ELSE [threw |-> FALSE, result |-> result]
    IN  IF tagged.threw \/ tagged.result = <<>> THEN tagged
        ELSE [threw  |-> FALSE,
              result |-> <<WithComponentKind(WithComponentOptions(tagged.result[1], comment))>>]

\* the record of a convertNode call that is over
Returned(node, how, before, after, post) ==
    [node |-> <<node>>, how |-> how, before |-> before, after |-> after,
     threw |-> post.threw, value |-> IF post.threw THEN <<>> ELSE post.result]

\* the handler registers the reflection it created with the project
Registered(map, result) == IF result = <<>> THEN map ELSE Put(map, result[1].id, result[1])

(***************************************************************************)
(* convert: the begin event, compile (every source file through            *)
(* convertNode, then the diagnostic phases), resolve, the end event.       *)
(***************************************************************************)
\* the file name lists convert is called with; a path is its pieces, "\\" and "/"
\* being the separators
InputFileNames ==
    { << <<"src", "/", "a.ts">> >>,
      << <<"src", "/", "a.ts">>, <<"src", "/", "b.ts">> >>,
      << <<"src", "/", "a.ts">>, <<"src", "/", "a.ts">> >>,
      << <<"src", "\\", "a.ts">>, <<"src", "/", "a.ts">> >> }

\* _ts.normalizeSlashes(path): every backslash becomes a slash
NormalizeSlashes(path) == [i \in 1..Len(path) |-> IF path[i] = "\\" THEN "/" ELSE path[i]]

\* normalizePath(path): backslashes become slashes
NormalizePath(path) == [i \in 1..Len(path) |-> IF path[i] = "\\" THEN "/" ELSE path[i]]

\* lines 274-276: each entry of fileNames is replaced by its normalized form
NormalizedFileNames(input) ==
    [i \in 1..Len(input) |-> NormalizePath(NormalizeSlashes(input[i]))]

Event(e, arg, list) == [e |-> e, arg |-> arg, list |-> list]

\* program.getOptionsDiagnostics, getSyntacticDiagnostics, getGlobalDiagnostics,
\* getSemanticDiagnostics, in the order compile calls them
PhaseNames ==
    <<"getOptionsDiagnostics", "getSyntacticDiagnostics", "getGlobalDiagnostics",
      "getSemanticDiagnostics">>

\* the lists a phase may report
Diagnostics(p) ==
    {<<>>, <<[phase |-> p, n |-> 1]>>, <<[phase |-> p, n |-> 1], [phase |-> p, n |-> 2]>>}

\* a pipeline that goes on after a phase that reported something
AfterPhaseNoReturn(p, diagnostics, sofar) ==
    IF p = Len(PhaseNames)
    THEN [returned |-> TRUE, errors |-> IF Len(diagnostics) # 0 THEN diagnostics ELSE sofar,
          phase |-> p]
    ELSE [returned |-> FALSE, errors |-> IF Len(diagnostics) # 0 THEN diagnostics ELSE sofar,
          phase |-> p + 1]

\* lines 415-435: after phase p reported `diagnostics'
AfterPhase(p, diagnostics, sofar) ==
    IF Len(diagnostics) # 0
    THEN [returned |-> TRUE, errors |-> diagnostics, phase |-> p]
    ELSE IF p = Len(PhaseNames)
    THEN [returned |-> TRUE, errors |-> <<>>, phase |-> p]
    ELSE [returned |-> FALSE, errors |-> sofar, phase |-> p + 1]

\* enumerable properties that project.reflections inherits from its prototype
PrototypeKeys == <<0>>

\* the keys for (let id in project.reflections) runs through: own integer keys in
\* ascending order, then inherited ones
Keys(map) ==
    [i \in 1..Cardinality(DOMAIN map) |->
        CHOOSE k \in DOMAIN map : Cardinality({j \in DOMAIN map : j < k}) = i - 1]
        \o PrototypeKeys

\* a loop that takes every enumerable key for a reflection
HasOwnPropertySkipped(map, id) == TRUE

\* project.reflections.hasOwnProperty(id)
HasOwnProperty(map, id) == id \in DOMAIN map

\* lines 449-452: one turn of the loop fires resolveReflection for an own key
Triggered(fired, map, idx) ==
    IF HasOwnProperty(map, Keys(map)[idx])
    THEN Append(fired, Event("resolveReflection", <<Keys(map)[idx]>>, <<>>))
    ELSE fired

\* a pass that takes what it resolved out of the project
ResolvedAndRemoved(map, idx) == Delete(map, Keys(map)[idx])

\* line 452: the reflection is handed to the listeners, project.reflections is
\* only read
Resolved(map, idx) == map

NoCall ==
    [node |-> <<>>, how |-> "none", before |-> <<>>, after |-> <<>>,
     threw |-> FALSE, value |-> <<>>]

\* resolve was not called a second time
NoSecondPass == [pc |-> "none", keyIdx |-> 1, events |-> <<>>, before |-> EmptyMap]

NoConversion ==
    /\ pc = "idle"
    /\ again = NoSecondPass
    /\ fileNames = <<>>
    /\ fileIdx = 1
    /\ phase = 1
    /\ frames = <<>>
    /\ visitStack = <<>>
    /\ last = NoCall
    /\ events = <<>>
    /\ reflections = EmptyMap
    /\ keyIdx = 1
    /\ errors = <<>>

Init ==
    /\ children = EmptyMap
    /\ nodeConverters = EmptyMap
    /\ typeNodeConverters = <<>>
    /\ typeTypeConverters = <<>>
    /\ regLog = <<>>
    /\ lastOp = [op |-> "initialize", c |-> <<>>]
    /\ call = Idle
    /\ program = 1
    /\ NoConversion

\* addComponent(name, component): super.addComponent throws when the name is taken
AddComponent(name, c) ==
    /\ call.pc = "idle"
    /\ Len(regLog) < MaxRegs
    /\ name \notin DOMAIN children
    /\ children' = Put(children, name, c)
    /\ regLog' = Append(regLog, c)
    /\ lastOp' = [op |-> "add", c |-> <<c>>]
    /\ UNCHANGED <<call, conversion>>
    /\ LET e == [c |-> c, at |-> Len(regLog) + 1]
       IN  IF ClassOf(c) = "node"
           THEN /\ nodeConverters' = AddNodeConverter(nodeConverters, c, Supports(c))
                /\ UNCHANGED <<typeNodeConverters, typeTypeConverters>>
           ELSE IF ClassOf(c) = "type"
           THEN /\ typeNodeConverters' = AddTypeNodeConverter(typeNodeConverters, e)
                /\ typeTypeConverters' = AddTypeTypeConverter(typeTypeConverters, e)
                /\ UNCHANGED nodeConverters
           ELSE UNCHANGED <<nodeConverters, typeNodeConverters, typeTypeConverters>>

\* removeComponent(name): super.removeComponent returns nothing for an unknown name
RemoveComponent(name) ==
    /\ call.pc = "idle"
    /\ name \in DOMAIN children
    /\ LET c == children[name]
       IN  /\ children' = Delete(children, name)
           /\ lastOp' = [op |-> "remove", c |-> <<c>>]
           /\ IF ClassOf(c) = "node"
              THEN /\ nodeConverters' = RemoveNodeConverter(nodeConverters, c)
                   /\ UNCHANGED <<typeNodeConverters, typeTypeConverters>>
              ELSE IF ClassOf(c) = "type"
              THEN /\ typeTypeConverters' = RemoveTypeConverter(typeTypeConverters, c)
                   /\ typeNodeConverters' = RemoveTypeConverter(typeNodeConverters, c)
                   /\ UNCHANGED nodeConverters
              ELSE UNCHANGED <<nodeConverters, typeNodeConverters, typeTypeConverters>>
    /\ UNCHANGED <<regLog, call, conversion>>

RemoveAllComponents ==
    /\ call.pc = "idle"
    /\ children' = EmptyMap
    /\ nodeConverters' = EmptyMap
    /\ typeTypeConverters' = <<>>
    /\ typeNodeConverters' = <<>>
    /\ regLog' = <<>>
    /\ lastOp' = [op |-> "clear", c |-> <<>>]
    /\ UNCHANGED <<call, conversion>>

\* convertType(context, node, type) is called
ConvertTypeCall(node, type) ==
    /\ call.pc = "idle"
    /\ call' = ConvertTypeEnter(node, type)
    /\ UNCHANGED <<registry, conversion>>

\* the next node-driven converter is asked; it answers `supported'
ConvertTypeNodes(supported) ==
    /\ call.pc = "nodes"
    /\ call' = NodeLoop(call, typeNodeConverters, supported)
    /\ UNCHANGED <<registry, conversion>>

\* the next type-driven converter is asked; it answers `supported'
ConvertTypeTypes(supported) ==
    /\ call.pc = "types"
    /\ call' = TypeLoop(call, typeTypeConverters, supported)
    /\ UNCHANGED <<registry, conversion>>

\* convertType has returned call.result to its caller
ConvertTypeReturn ==
    /\ call.pc = "done"
    /\ call' = Idle
    /\ UNCHANGED <<registry, conversion>>

\* a convert that leaves the resolution pass out
AfterCompileNoResolve == "end"

\* a convert that returns at once when compile reported something
AfterCompileStopOnErrors == IF errors' # <<<<>>>> THEN "returned" ELSE "resolveBegin"

\* lines 284-285: resolve follows compile
AfterCompile == "resolveBegin"

\* lines 273-282: the program, the checker and the Context are made, begin is fired
Convert ==
    /\ pc = "idle"
    /\ call.pc = "idle"
    /\ \E input \in InputFileNames : fileNames' = NormalizedFileNames(input)
    /\ pc' = "compile"
    /\ events' = <<Event("begin", <<>>, <<>>)>>
    /\ fileIdx' = 1
    /\ phase' = 1
    /\ visitStack' = <<>>
    /\ reflections' = EmptyMap
    /\ UNCHANGED <<registry, call, program, frames, last, keyIdx, errors, again>>

\* lines 304-316 of a convertNode(context, node) call made while `callers' are the
\* running handlers: the guard returns null, a node without handler goes through
\* lines 318-365 and returns, a node with a handler has its handler started
ConvertNode(node, callers) ==
    IF InVisitStack(visitStack, node)
    THEN /\ frames' = callers
         /\ last' = Returned(node, "cycle", visitStack, visitStack,
                             [threw |-> FALSE, result |-> <<>>])
         /\ UNCHANGED <<visitStack, reflections, pc>>
    ELSE IF ~HasHandler(nodeConverters, node)
    THEN \E post \in {PostProcess(<<>>, RawComment(program, node))} :
         \E after \in {Restored(visitStack, Pushed(visitStack, node))} :
             /\ visitStack' = after
             /\ last' = Returned(node, "nohandler", visitStack, after, post)
             /\ frames' = IF post.threw THEN <<>> ELSE callers
             /\ pc' = IF post.threw THEN "threw" ELSE pc
             /\ UNCHANGED reflections
    ELSE /\ frames' = Append(callers, [node |-> node, oldVisitStack |-> visitStack, next |-> 1])
         /\ visitStack' = Pushed(visitStack, node)
         /\ UNCHANGED <<last, reflections, pc>>

\* lines 408-413: compile passes the next source file to convertNode
CompileFile ==
    /\ pc = "compile"
    /\ frames = <<>>
    /\ fileIdx <= Len(SourceFiles)
    /\ fileIdx' = fileIdx + 1
    /\ events' = Append(events, Event("convertNode", <<SourceFiles[fileIdx]>>, <<>>))
    /\ ConvertNode(SourceFiles[fileIdx], <<>>)
    /\ UNCHANGED <<registry, call, program, fileNames, again, phase, keyIdx, errors>>

\* line 315: the running handler passes the next node it refers to to convertNode
HandlerCall ==
    /\ pc = "compile"
    /\ frames # <<>>
    /\ frames[Len(frames)].next <= Len(Children(frames[Len(frames)].node))
    /\ ConvertNode(Children(frames[Len(frames)].node)[frames[Len(frames)].next],
                   [frames EXCEPT ![Len(frames)].next = @ + 1])
    /\ UNCHANGED <<registry, call, program, fileNames, again, fileIdx, phase, events, keyIdx, errors>>

\* lines 315-365: the running handler returns; convertNode restores the stack, works
\* on the result and returns it, or fails on the tag
HandlerReturn ==
    /\ pc = "compile"
    /\ frames # <<>>
    /\ frames[Len(frames)].next > Len(Children(frames[Len(frames)].node))
    /\ \E top \in {frames[Len(frames)]} :
       \E post \in {PostProcess(HandlerResult(top.node), RawComment(program, top.node))} :
       \E after \in {Restored(top.oldVisitStack, visitStack)} :
           /\ visitStack' = after
           /\ reflections' = Registered(reflections, post.result)
           /\ last' = Returned(top.node, "handler", top.oldVisitStack, after, post)
           /\ frames' = IF post.threw THEN <<>> ELSE SubSeq(frames, 1, Len(frames) - 1)
           /\ pc' = IF post.threw THEN "threw" ELSE pc
    /\ UNCHANGED <<registry, call, program, fileNames, again, fileIdx, phase, events, keyIdx, errors>>

\* lines 415-435: the next diagnostic phase is queried and reports `diagnostics'
CompileDiagnostics(diagnostics) ==
    /\ pc = "compile"
    /\ frames = <<>>
    /\ fileIdx > Len(SourceFiles)
    /\ events' = Append(events, Event(PhaseNames[phase], <<>>, diagnostics))
    /\ LET after == AfterPhase(phase, diagnostics, <<>>)
       IN  /\ phase' = after.phase
           /\ errors' = IF after.returned THEN <<after.errors>> ELSE errors
           /\ pc' = IF after.returned THEN AfterCompile ELSE pc
    /\ UNCHANGED <<registry, call, program, fileNames, again, fileIdx, frames, visitStack, last, reflections, keyIdx>>

\* line 445
ResolveBegin ==
    /\ pc = "resolveBegin"
    /\ events' = Append(events, Event("resolveBegin", <<>>, <<>>))
    /\ keyIdx' = 1
    /\ pc' = "resolve"
    /\ UNCHANGED <<registry, call, program, fileNames, again, fileIdx, phase, frames, visitStack, last,
                   reflections, errors>>

\* lines 448-453: one turn of the for-in loop
ResolveReflection ==
    /\ pc = "resolve"
    /\ keyIdx <= Len(Keys(reflections))
    /\ events' = Triggered(events, reflections, keyIdx)
    /\ reflections' = Resolved(reflections, keyIdx)
    /\ keyIdx' = keyIdx + 1
    /\ UNCHANGED <<registry, call, program, fileNames, again, pc, fileIdx, phase, frames,
                   visitStack, last, errors>>

\* lines 455-456
ResolveEnd ==
    /\ pc = "resolve"
    /\ keyIdx > Len(Keys(reflections))
    /\ events' = Append(events, Event("resolveEnd", <<>>, <<>>))
    /\ pc' = "end"
    /\ UNCHANGED <<registry, call, program, fileNames, again, fileIdx, phase, frames, visitStack, last,
                   reflections, keyIdx, errors>>

\* lines 289-292: what convert returns
ConverterResult == [errors |-> errors[1], project |-> reflections]

\* lines 287-292: end is fired and convert returns {errors, project}
ConvertEnd ==
    /\ pc = "end"
    /\ events' = Append(events, Event("end", <<>>, <<>>))
    /\ pc' = "returned"
    /\ UNCHANGED <<registry, call, program, fileNames, again, fileIdx, phase, frames, visitStack, last,
                   reflections, keyIdx, errors>>

\* resolve(context) is called again on the context of a convert that returned:
\* line 445
ResolveAgain ==
    /\ pc = "returned"
    /\ again.pc = "none"
    /\ again' = [pc |-> "resolve", keyIdx |-> 1,
                 events |-> <<Event("resolveBegin", <<>>, <<>>)>>, before |-> reflections]
    /\ UNCHANGED <<registry, call, program, fileNames, pc, fileIdx, phase, frames, visitStack,
                   last, events, reflections, keyIdx, errors>>

\* lines 448-453 of the second call
ResolveAgainReflection ==
    /\ again.pc = "resolve"
    /\ again.keyIdx <= Len(Keys(reflections))
    /\ again' = [again EXCEPT !.events = Triggered(@, reflections, again.keyIdx),
                              !.keyIdx = @ + 1]
    /\ reflections' = Resolved(reflections, again.keyIdx)
    /\ UNCHANGED <<registry, call, program, fileNames, pc, fileIdx, phase, frames, visitStack,
                   last, events, keyIdx, errors>>

\* lines 455-456 of the second call
ResolveAgainEnd ==
    /\ again.pc = "resolve"
    /\ again.keyIdx > Len(Keys(reflections))
    /\ again' = [again EXCEPT !.events = Append(@, Event("resolveEnd", <<>>, <<>>)),
                              !.pc = "done"]
    /\ UNCHANGED <<registry, call, program, fileNames, pc, fileIdx, phase, frames, visitStack,
                   last, events, reflections, keyIdx, errors>>

Next ==
    \/ \E name \in Names, c \in Converters : AddComponent(name, c)
    \/ \E name \in Names : RemoveComponent(name)
    \/ RemoveAllComponents

Spec == Init /\ [][Next]_vars

(***************************************************************************)
(* convertType over the lists that registering type converters builds.     *)
(***************************************************************************)
TypeConverters == {c \in Converters : ClassOf(c) = "type"}

FreeName(name) == name \notin DOMAIN children /\ \A n \in Names : n < name => n \in DOMAIN children

NextType ==
    \/ \E name \in Names, c \in TypeConverters : FreeName(name) /\ AddComponent(name, c)
    \/ \E node \in {<<>>} \cup {<<n>> : n \in TypeNodes},
          type \in {<<>>} \cup {<<t>> : t \in Types} : ConvertTypeCall(node, type)
    \/ \E supported \in BOOLEAN : ConvertTypeNodes(supported)
    \/ \E supported \in BOOLEAN : ConvertTypeTypes(supported)
    \/ ConvertTypeReturn

SpecType == Init /\ [][NextType]_vars

(***************************************************************************)
(* convert on a program, with the node converters of a registry that       *)
(* registering built.                                                      *)
(***************************************************************************)
RECURSIVE RegisterAll(_, _)
RegisterAll(map, components) ==
    IF components = <<>> THEN map
    ELSE RegisterAll(AddNodeConverter(map, Head(components), Supports(Head(components))),
                     Tail(components))

InitConvert ==
    \E components \in {<<>>, <<5>>, <<5, 6>>}, p \in 1..Len(Comments) :
        /\ children = components
        /\ nodeConverters = RegisterAll(EmptyMap, components)
        /\ typeNodeConverters = <<>>
        /\ typeTypeConverters = <<>>
        /\ regLog = components
        /\ lastOp = IF components = <<>> THEN [op |-> "initialize", c |-> <<>>]
                    ELSE [op |-> "add", c |-> <<components[Len(components)]>>]
        /\ call = Idle
        /\ program = p
        /\ NoConversion

NextConvert ==
    \/ Convert
    \/ CompileFile
    \/ HandlerCall
    \/ HandlerReturn
    \/ \E p \in 1..Len(PhaseNames) : \E diagnostics \in Diagnostics(p) :
          p = phase /\ CompileDiagnostics(diagnostics)
    \/ ResolveBegin
    \/ ResolveReflection
    \/ ResolveEnd
    \/ ConvertEnd

SpecConvert == InitConvert /\ [][NextConvert]_vars

\* convert runs to its end: nothing suspends it
SpecConvertFair == SpecConvert /\ WF_vars(NextConvert)

\* convert, and then resolve once more on the same context
NextResolveTwice ==
    \/ NextConvert
    \/ ResolveAgain
    \/ ResolveAgainReflection
    \/ ResolveAgainEnd

SpecResolveTwice == InitConvert /\ [][NextResolveTwice]_vars

(***************************************************************************)
(* The registry's properties.                                              *)
(***************************************************************************)
\* a converter's declared priority, none counting as 0
DeclaredOrZero(c) == IF Priority(c) = <<>> THEN 0 ELSE Priority(c)[1]

SortedDescending(list) ==
    \A i, j \in 1..Len(list) : i < j => DeclaredOrZero(list[i].c) >= DeclaredOrZero(list[j].c)

ConvertersOf(list) == {list[i].c : i \in 1..Len(list)}

\* C1: after any sequence of addComponent, removeComponent and removeAllComponents,
\* typeNodeConverters and typeTypeConverters are both sorted by priority, highest
\* first, a converter without a priority counting as priority 0.
C1_ListsSortedByPriority ==
    SortedDescending(typeNodeConverters) /\ SortedDescending(typeTypeConverters)

\* C1 happens: after an unregistration, a list holds a converter of higher priority,
\* registered later, in front of one of lower priority.
C1_Witness ==
    /\ lastOp.op = "remove"
    /\ \E i, j \in 1..Len(typeNodeConverters) :
          /\ i < j
          /\ DeclaredOrZero(typeNodeConverters[i].c) > DeclaredOrZero(typeNodeConverters[j].c)
          /\ typeNodeConverters[i].at > typeNodeConverters[j].at

TiesKeepRegistrationOrder(list) ==
    \A i, j \in 1..Len(list) :
        (i < j /\ DeclaredOrZero(list[i].c) = DeclaredOrZero(list[j].c))
            => list[i].at < list[j].at

\* C2: two entries of equal priority in the same type converter list stand in the
\* order of their registration, whatever else was registered or unregistered.
C2_TiesKeepRegistrationOrder ==
    TiesKeepRegistrationOrder(typeNodeConverters) /\ TiesKeepRegistrationOrder(typeTypeConverters)

\* C2 happens: two different converters tie in a list that a third converter, of
\* higher priority and registered after both, has been sorted into.
C2_Witness ==
    \E i, j, k \in 1..Len(typeNodeConverters) :
        /\ k < i /\ i < j
        /\ typeNodeConverters[i].c # typeNodeConverters[j].c
        /\ DeclaredOrZero(typeNodeConverters[i].c) = DeclaredOrZero(typeNodeConverters[j].c)
        /\ typeNodeConverters[k].at > typeNodeConverters[j].at

\* no removeComponent since initialize or the last removeAllComponents
OnlyRegistrations == Len(regLog) = Cardinality(DOMAIN children)

\* the registrations of node converters that declare kind k
Declaring(k) ==
    {i \in 1..Len(regLog) : ClassOf(regLog[i]) = "node" /\ k \in Range(Supports(regLog[i]))}

Latest(S) == CHOOSE i \in S : \A j \in S : j <= i

\* C8: after registrations only, the handler of a kind is the node converter
\* registered last among those that declare the kind, and a kind none declares
\* has no handler (the kind map, a function, holds one handler per kind).
C8_LatestRegistrationWins ==
    OnlyRegistrations =>
        \A k \in Kinds :
            IF Declaring(k) = {} THEN k \notin DOMAIN nodeConverters
            ELSE k \in DOMAIN nodeConverters /\ nodeConverters[k] = regLog[Latest(Declaring(k))]

\* C8 happens: converter 6, registered after 5, has taken kind 2 over and left kind 1 to 5.
C8_Witness ==
    /\ OnlyRegistrations
    /\ DOMAIN nodeConverters = {1, 2, 3}
    /\ nodeConverters[1] = 5 /\ nodeConverters[2] = 6
    /\ \E i, j \in 1..Len(regLog) : i < j /\ regLog[i] = 5 /\ regLog[j] = 6

\* C9: after removeComponent has unregistered c, no kind is mapped to c and c is in
\* neither typeNodeConverters nor typeTypeConverters.
C9_UnregisteredIsGone ==
    lastOp.op = "remove" =>
        /\ \A k \in DOMAIN nodeConverters : nodeConverters[k] # lastOp.c[1]
        /\ lastOp.c[1] \notin ConvertersOf(typeNodeConverters)
        /\ lastOp.c[1] \notin ConvertersOf(typeTypeConverters)

(***************************************************************************)
(* convertType's properties.                                               *)
(***************************************************************************)
NodeMatched == \E i \in 1..Len(call.log) : call.log[i].m = "supportsNode" /\ call.log[i].r

FirstNodeMatch ==
    CHOOSE i \in 1..Len(call.log) :
        /\ call.log[i].m = "supportsNode" /\ call.log[i].r
        /\ \A j \in 1..(i - 1) : ~(call.log[j].m = "supportsNode" /\ call.log[j].r)

\* C3: with a node supplied, once a supportsNode has answered true, that converter is
\* the first of typeNodeConverters to do so, the converters before it were asked in
\* list order, its convertNode was called and its result is the result of the call,
\* and nothing else is called: no later node-driven and no type-driven converter.
C3_FirstNodeMatchWins ==
    (call.node # <<>> /\ NodeMatched) =>
        LET i == FirstNodeMatch
        IN  /\ i <= Len(typeNodeConverters)
            /\ \A j \in 1..i :
                  call.log[j] = Called("supportsNode", typeNodeConverters[j].c, j = i)
            /\ Len(call.log) = i + 1
            /\ call.log[i + 1] = Called("convertNode", typeNodeConverters[i].c, TRUE)
            /\ call.pc = "done"
            /\ call.result = <<ConvertNodeResult(typeNodeConverters[i].c, call.node, call.type)>>

\* C3 happens: the second of three node-driven converters matched, with type-driven
\* converters registered, and the call is over.
C3_Witness ==
    /\ call.pc = "done" /\ call.node # <<>> /\ NodeMatched
    /\ FirstNodeMatch = 2
    /\ Len(typeNodeConverters) = 3
    /\ Len(typeTypeConverters) >= 1

\* the calls made to type-driven converters
TypeCalls == SelectSeq(call.log, LAMBDA x : x.m \in {"supportsType", "convertType"})

ConvertCalls == SelectSeq(call.log, LAMBDA x : x.m \in {"convertNode", "convertType"})

\* the type-driven converters were asked in list order up to the first that answered
\* true, whose convertType result is the result; or all were asked, none answered
\* true, the result is absent and no convert method was called
TypeDrivenTried ==
    \/ \E k \in 1..Len(typeTypeConverters) :
          /\ TypeCalls =
                [j \in 1..k |-> Called("supportsType", typeTypeConverters[j].c, j = k)]
                    \o <<Called("convertType", typeTypeConverters[k].c, TRUE)>>
          /\ call.result = <<ConvertTypeResult(typeTypeConverters[k].c, call.type)>>
    \/ /\ TypeCalls =
             [j \in 1..Len(typeTypeConverters) |->
                 Called("supportsType", typeTypeConverters[j].c, FALSE)]
       /\ call.result = <<>>
       /\ ConvertCalls = <<>>

\* C4 as stated: whenever no node is supplied or no supportsNode answered true, the
\* type-driven converters are tried in list order and the first match's convertType
\* result is the result; with no match at all the result is absent and nothing converts.
C4_TypeDrivenAlwaysTried ==
    (call.pc = "done" /\ (call.node = <<>> \/ ~NodeMatched)) => TypeDrivenTried

\* C4 amended: the same, for a call that has a type (supplied, or looked up at the
\* node); a call with neither node nor type asks no converter and returns absence.
C4_TypeDrivenTriedGivenType ==
    (call.pc = "done" /\ (call.node = <<>> \/ ~NodeMatched)) =>
        IF call.type # <<>> THEN TypeDrivenTried
        ELSE call.node = <<>> /\ call.log = <<>> /\ call.result = <<>>

\* C4 happens: without a node, the second of two type-driven converters matched.
C4_Witness ==
    /\ call.pc = "done" /\ call.node = <<>> /\ call.type # <<>>
    /\ Len(typeTypeConverters) >= 2
    /\ Len(TypeCalls) = 3
    /\ call.result = <<ConvertTypeResult(typeTypeConverters[2].c, call.type)>>

\* C4 happens: a node was supplied, no node-driven converter matched, none of the
\* type-driven ones either.
C4_WitnessNoMatch ==
    /\ call.pc = "done" /\ call.node # <<>> /\ ~NodeMatched
    /\ Len(typeNodeConverters) >= 1 /\ Len(typeTypeConverters) >= 1
    /\ call.result = <<>>

(***************************************************************************)
(* convertNode's properties.                                               *)
(***************************************************************************)
\* C5: a convertNode call on a node whose kind has no handler returns absence,
\* raises no error, runs no handler and leaves context.visitStack as it found it.
C5_NoHandlerReturnsAbsence ==
    (last.how # "none" /\ Kind(last.node[1]) \notin DOMAIN nodeConverters) =>
        /\ last.value = <<>>
        /\ ~last.threw
        /\ last.how # "handler"
        /\ last.after = last.before

\* C5 happens: a handler passed a node without handler to convertNode, the node
\* carrying the not-supported-in marker with nothing the tag pattern accepts.
C5_Witness ==
    /\ last.how = "nohandler"
    /\ last.before # <<>>
    /\ RawComment(program, last.node[1]) = <<<<"@notSupportedIn", " ", "-">>>>

\* no handler is running for a node that was in visitStack when convertNode got it
NoReentry ==
    \A i \in 1..Len(frames) :
        \A j \in 1..Len(frames[i].oldVisitStack) : frames[i].oldVisitStack[j] # frames[i].node

\* a call on a node that was in visitStack returned absence at once
ReentrantCallReturnedAbsence ==
    (last.how # "none" /\ \E j \in 1..Len(last.before) : last.before[j] = last.node[1]) =>
        /\ last.how = "cycle"
        /\ last.value = <<>>
        /\ ~last.threw
        /\ last.after = last.before

\* compile has passed every source file to convertNode and every call is over
TraversalOver ==
    \/ pc \notin {"idle", "compile"}
    \/ pc = "compile" /\ frames = <<>> /\ fileIdx > Len(SourceFiles)

\* C6: on a node graph with cycles, a convertNode call on a node already in
\* context.visitStack returns absence at once and runs no handler, and the
\* traversal of the source files comes to an end.
C6_CyclesEndInAbsence ==
    [](NoReentry /\ ReentrantCallReturnedAbsence) /\ <>TraversalOver

\* C6 happens: a node was passed to convertNode again by a handler further down
\* (not by its own handler), and the call returned.
C6_Witness ==
    /\ last.how = "cycle"
    /\ Len(last.before) >= 2
    /\ last.before[1] = last.node[1]
    /\ frames # <<>>

(***************************************************************************)
(* compile's and convert's properties.                                     *)
(***************************************************************************)
\* the diagnostic phases queried so far, with what each reported
Queried == SelectSeq(events, LAMBDA x : x.e \in Range(PhaseNames))

\* C7: the phases are queried in the order options, syntactic, global, semantic;
\* none is queried after one that reported something; compile returns the list of
\* the phase that reported something, and the empty list only after all four
\* phases reported nothing.
C7_FirstReportingPhaseIsReturned ==
    /\ Len(Queried) <= Len(PhaseNames)
    /\ \A i \in 1..Len(Queried) : Queried[i].e = PhaseNames[i]
    /\ \A i \in 1..(Len(Queried) - 1) : Queried[i].list = <<>>
    /\ IF errors = <<>>
       THEN \A i \in 1..Len(Queried) : Queried[i].list = <<>> /\ i < Len(PhaseNames)
       ELSE /\ Queried # <<>>
            /\ IF Queried[Len(Queried)].list # <<>>
               THEN errors[1] = Queried[Len(Queried)].list
               ELSE Len(Queried) = Len(PhaseNames) /\ errors[1] = <<>>

\* C7 happens: only the semantic phase reported something, after the three others
\* were queried, and compile returned its list.
C7_Witness ==
    /\ pc = "returned"
    /\ Len(Queried) = 4
    /\ Queried[4].list # <<>>
    /\ errors = <<Queried[4].list>>

Rank(e) ==
    CASE e = "begin"             -> 1
      [] e = "convertNode"       -> 2
      [] e \in Range(PhaseNames) -> 3
      [] e = "resolveBegin"      -> 4
      [] e = "resolveReflection" -> 5
      [] e = "resolveEnd"        -> 6
      [] e = "end"               -> 7

Count(e) == Len(SelectSeq(events, LAMBDA x : x.e = e))

Visited == SelectSeq(events, LAMBDA x : x.e = "convertNode")

\* C10: begin comes first and once; the source files go to convertNode in
\* getSourceFiles order; a diagnostic phase is queried only after all of them were
\* visited; then resolveBegin, the resolveReflection events, resolveEnd, and end,
\* each of these once, end last, before convert returns.
C10_ConvertStepsInOrder ==
    /\ \A i, j \in 1..Len(events) : i < j => Rank(events[i].e) <= Rank(events[j].e)
    /\ \A e \in {"begin", "resolveBegin", "resolveEnd", "end"} : Count(e) <= 1
    /\ \A i \in 1..Len(Visited) : i <= Len(SourceFiles) /\ Visited[i].arg = <<SourceFiles[i]>>
    /\ Len(Visited) <= Len(SourceFiles)
    /\ Queried # <<>> => (Len(Visited) = Len(SourceFiles) /\ frames = <<>>)
    /\ pc # "idle" => (events # <<>> /\ events[1].e = "begin")
    /\ pc = "returned" =>
          /\ \A e \in {"begin", "resolveBegin", "resolveEnd", "end"} : Count(e) = 1
          /\ Queried # <<>>
          /\ events[Len(events)].e = "end"

\* C10 happens: convert returned after visiting two source files, querying two
\* phases and resolving two reflections.
C10_Witness ==
    /\ pc = "returned"
    /\ Len(Visited) = 2
    /\ Len(Queried) = 2
    /\ Count("resolveReflection") >= 2

\* what compile returned, read off the phases it queried
CompileReturned ==
    IF Queried[Len(Queried)].list # <<>> THEN Queried[Len(Queried)].list ELSE <<>>

\* a convert that returned went through everything, whatever compile reported
RanToTheEnd ==
    pc = "returned" =>
        /\ Len(Visited) = Len(SourceFiles)
        /\ Count("resolveBegin") = 1
        /\ Count("resolveReflection") = Cardinality(DOMAIN reflections)
        /\ Count("resolveEnd") = 1
        /\ Count("end") = 1
        /\ ConverterResult.errors = CompileReturned
        /\ DOMAIN ConverterResult.project = DOMAIN reflections

\* C11: diagnostics do not stop the conversion. Once compile has returned its
\* list, empty or not, convert goes on to return; a convert that returned has
\* visited every source file, run the whole resolution pass and fired end, and the
\* errors it returns are the list compile returned.
C11_DiagnosticsNeverStopConversion ==
    [](RanToTheEnd) /\ ((errors # <<>>) ~> (pc = "returned"))

\* C11 happens: compile returned a list that is not empty, and convert returned
\* it after resolving a reflection.
C11_Witness ==
    /\ pc = "returned"
    /\ ConverterResult.errors # <<>>
    /\ Count("resolveReflection") >= 1
    /\ Count("end") = 1

(***************************************************************************)
(* resolve's properties.                                                   *)
(***************************************************************************)
\* the reflections the resolveReflection events were fired for, in order
ResolvedIds == [i \in 1..Count("resolveReflection") |->
                  SelectSeq(events, LAMBDA x : x.e = "resolveReflection")[i].arg[1]]

\* where event e stands in the log (0 when it was not fired)
Position(e) ==
    IF Count(e) = 0 THEN 0 ELSE CHOOSE i \in 1..Len(events) : events[i].e = e

\* C12: the resolution pass fires resolveBegin once, then one resolveReflection
\* event for each own entry of project.reflections and none for an inherited key,
\* then resolveEnd once; no resolveReflection event stands before resolveBegin or
\* behind resolveEnd.
C12_OneResolveEventPerOwnReflection ==
    /\ Count("resolveBegin") <= 1 /\ Count("resolveEnd") <= 1
    /\ \A i \in 1..Len(ResolvedIds) : ResolvedIds[i] \in DOMAIN reflections
    /\ \A i, j \in 1..Len(ResolvedIds) : i # j => ResolvedIds[i] # ResolvedIds[j]
    /\ \A i \in 1..Len(events) : events[i].e = "resolveReflection" =>
           /\ Position("resolveBegin") # 0 /\ Position("resolveBegin") < i
           /\ Position("resolveEnd") # 0 => i < Position("resolveEnd")
    /\ Count("resolveEnd") = 1 =>
           /\ Count("resolveBegin") = 1
           /\ Range(ResolvedIds) = DOMAIN reflections

\* C12 happens: the pass is over, the project holds two reflections, and the loop
\* went through more keys than it fired events for.
C12_Witness ==
    /\ Count("resolveEnd") = 1
    /\ Cardinality(DOMAIN reflections) >= 2
    /\ Len(Keys(reflections)) > Len(ResolvedIds)
    /\ keyIdx > Len(Keys(reflections))

(***************************************************************************)
(* What convertNode does to the handler's result.                          *)
(***************************************************************************)
\* the last call had a result from a handler, on a node whose comment holds the
\* not-supported-in marker without anything the tag pattern matches
UnmatchedTag ==
    /\ last.how = "handler"
    /\ HandlerResult(last.node[1]) # <<>>
    /\ RawComment(program, last.node[1]) # <<>>
    /\ HasMarker(RawComment(program, last.node[1])[1], "@notSupportedIn")
    /\ TagRegexExec(RawComment(program, last.node[1])[1]) = <<>>

\* the tags of a returned reflection's comment
TagsOf(reflection) ==
    IF reflection.comment = <<>> \/ reflection.comment[1].tags = <<>> THEN <<>>
    ELSE reflection.comment[1].tags[1]

\* C13: when the handler produced a result and the raw comment holds the
\* not-supported-in marker but the tag pattern does not match, convertNode does
\* not fail, adds no synthesized tag, records no feature list and returns the
\* result.
C13_UnmatchedTagIsAbsent ==
    UnmatchedTag =>
        /\ ~last.threw
        /\ last.value # <<>>
        /\ last.value[1].id = last.node[1]
        /\ last.value[1].notSupportedIn = <<>>
        /\ \A i \in 1..Len(TagsOf(last.value[1])) :
               TagsOf(last.value[1])[i].tagName # "not supported in"

(***************************************************************************)
(* The roles a component is registered under.                              *)
(***************************************************************************)
\* C14: after a component was registered, it is installed under every role it
\* declares: in the kind map for each kind it supports, in typeNodeConverters when
\* it has supportsNode and convertNode, in typeTypeConverters when it has
\* supportsType and convertType.
C14_InstalledUnderEveryRole ==
    lastOp.op = "add" =>
        /\ \A k \in Range(Supports(lastOp.c[1])) :
               k \in DOMAIN nodeConverters /\ nodeConverters[k] = lastOp.c[1]
        /\ HasNodePair(lastOp.c[1]) => lastOp.c[1] \in ConvertersOf(typeNodeConverters)
        /\ HasTypePair(lastOp.c[1]) => lastOp.c[1] \in ConvertersOf(typeTypeConverters)

(***************************************************************************)
(* The file names convert works on.                                        *)
(***************************************************************************)
\* C15: the file list convert hands to program construction and to the Context is
\* normalized, keeps the input order and holds no path twice.
C15_FileNamesDeduplicated ==
    pc # "idle" =>
        /\ \A i \in 1..Len(fileNames) : \A k \in 1..Len(fileNames[i]) : fileNames[i][k] # "\\"
        /\ \A i, j \in 1..Len(fileNames) : i # j => fileNames[i] # fileNames[j]

\* the events of the resolution pass convert ran
FirstPass == SelectSeq(events, LAMBDA x : x.e \in {"resolveBegin", "resolveReflection", "resolveEnd"})

IsComponentName(text) == text \in {"component", "Component", "COMPONENT"}

\* the type names that hold `icomponentbindings' but for the case of their letters
HoldsBindingsName(text) == text \in {"IComponentBindings", "MyIComponentBindingsX"}

\* some extended type of r is named component, or some implemented type's name
\* holds icomponentbindings
NamesAComponent(r) ==
    \/ r.extendedTypes # <<>> /\ \E i \in 1..Len(r.extendedTypes[1]) :
                                    IsComponentName(r.extendedTypes[1][i])
    \/ r.implementedTypes # <<>> /\ \E i \in 1..Len(r.implementedTypes[1]) :
                                       HoldsBindingsName(r.implementedTypes[1][i])

\* the last call returned what a handler produced
ReturnedAResult == last.how = "handler" /\ ~last.threw /\ last.value # <<>>

\* C17: the kind of a returned result is the component kind exactly when the
\* result is a declaration reflection and an extended type is named `component'
\* in any case of letters or an implemented type's name holds
\* `icomponentbindings' in any case of letters; otherwise it is the kind the
\* handler gave it.
C17_ComponentKindIffSentinel ==
    ReturnedAResult =>
        last.value[1].kind =
            IF HandlerResult(last.node[1])[1].declaration /\ NamesAComponent(HandlerResult(last.node[1])[1])
            THEN "CoveoComponent"
            ELSE HandlerResult(last.node[1])[1].kind

\* C17 happens: a declaration reflection that extends MyComponent and implements
\* IComponent was returned.
C17_Witness ==
    /\ ReturnedAResult
    /\ last.value[1].declaration
    /\ last.value[1].extendedTypes = <<<<"MyComponent">>>>
    /\ last.value[1].kind = "Class"

(***************************************************************************)
(* The stack of nodes under conversion.                                    *)
(***************************************************************************)
\* the stack in force while the handler of frame i runs its own code
StackOf(i) == IF i = Len(frames) THEN visitStack ELSE frames[i + 1].oldVisitStack

\* C18: while a handler runs, context.visitStack is the caller's stack with the
\* node appended, and the caller's stack is what the call found; when convertNode
\* has returned normally, context.visitStack is the caller's stack again, so a
\* call made afterwards does not see the nodes of an earlier sibling's branch.
C18_CallerStackIsRestored ==
    /\ pc = "compile" =>
           \A i \in 1..Len(frames) : StackOf(i) = Append(frames[i].oldVisitStack, frames[i].node)
    /\ (last.how # "none" /\ ~last.threw) => last.after = last.before

\* C18 happens: a handler runs for the second node its caller's handler passed to
\* convertNode, after the call on the first one ran a handler and returned, and
\* the first node is not in the stack.
C18_Witness ==
    /\ pc = "compile"
    /\ Len(frames) >= 2
    /\ frames[Len(frames) - 1].next = 3
    /\ frames[Len(frames)].next = 1
    /\ last.how = "handler"
    /\ last.node[1] = Children(frames[Len(frames) - 1].node)[1]
    /\ ~InVisitStack(visitStack, last.node[1])

\* the nodes of the convertNode calls whose handler is running, outermost first
ActiveChain == [i \in 1..Len(frames) |-> frames[i].node]

\* C19: in every state of a traversal, context.visitStack is the chain of the
\* nodes of the convertNode calls whose handler is running, outermost first; no
\* node is in it twice, so it is never longer than the number of nodes.
C19_StackIsTheActiveChain ==
    /\ visitStack = ActiveChain
    /\ \A i, j \in 1..Len(visitStack) : i # j => visitStack[i] # visitStack[j]
    /\ Len(visitStack) <= NumNodes

(***************************************************************************)
(* Unregistering a node converter.                                         *)
(***************************************************************************)
\* this step is removeComponent(name)
Unregisters(name) ==
    /\ name \in DOMAIN children
    /\ DOMAIN children' = DOMAIN children \ {name}
    /\ regLog' = regLog

\* C20: unregistering node converter c takes out of the kind map the kinds mapped
\* to c and nothing else: a kind mapped to another converter keeps its handler,
\* a kind mapped to c has no handler afterwards, whoever held it before c, and no
\* kind gets a handler.
C20_UnregisterTouchesOwnKindsOnly ==
    [][\A name \in Names :
          (Unregisters(name) /\ ClassOf(children[name]) = "node") =>
              /\ DOMAIN nodeConverters' = {k \in DOMAIN nodeConverters : nodeConverters[k] # children[name]}
              /\ \A k \in DOMAIN nodeConverters' : nodeConverters'[k] = nodeConverters[k]]_vars

\* C20 happens: 6 was registered after 5 and took kind 2 over from it; 6 was
\* unregistered, 5 is still registered and holds kind 1, and kind 2 has no handler.
C20_Witness ==
    /\ lastOp = [op |-> "remove", c |-> <<6>>]
    /\ regLog = <<5, 6>>
    /\ \E name \in DOMAIN children : children[name] = 5
    /\ 1 \in DOMAIN nodeConverters /\ nodeConverters[1] = 5
    /\ 2 \notin DOMAIN nodeConverters

====
